---- MODULE Spec2Model ----
(***************************************************************************)
(* Curve engine of cpp-core/src/CurveEngine.cpp: the C API (curve_create,  *)
(* curve_destroy, curve_generate_lut, curve_apply_to_image, the lifecycle  *)
(* calls) and the classes behind it (CubicSplineInterpolator,              *)
(* LookupTableGenerator, ImageCurveProcessor).                              *)
(*                                                                         *)
(* A C++ double is an extended rational <<n, d>>: d > 0 is the finite      *)
(* value n/d in lowest terms, <<1, 0>> is +inf, <<-1, 0>> is -inf and      *)
(* <<0, 0>> is NaN.  Arithmetic is exact on finite values and follows      *)
(* IEEE 754 on the special values, so a division by zero produces inf or   *)
(* NaN and propagates as it does in the program.                           *)
(***************************************************************************)
EXTENDS Integers, Sequences, FiniteSets, TLC

VARIABLES
    g_initialized,  \* bool g_initialized
    g_perf_stats,   \* g_perf_stats.processing_time_ms
    heap,           \* the CurveData objects curve_create allocated, by address
    op,             \* the API function called last
    args,           \* its arguments
    ret,            \* its return value
    out_curve,      \* the caller's CurveData* that args.out_curve points to
    lut,            \* the caller's double* that args.lut points to
    lut_size,       \* the caller's int32_t that args.lut_size points to
    output,         \* the bytes of the caller's output buffer
    omp,            \* the parallel row loop: for each row the worker that ran it, 0 if none yet
    writers,        \* for each output byte (offset from 0) the rows whose iteration stored it
    applied,        \* how many curves of a multi-curve apply have been applied
    pc,             \* concurrent callers: for each thread the statement it is about to run
    g_state_mutex   \* std::mutex g_state_mutex: the thread that holds it, 0 if none

vars == <<g_initialized, g_perf_stats, heap, op, args, ret, out_curve, lut, lut_size, output,
          omp, writers, applied, pc, g_state_mutex>>

----------------------------------------------------------------------------
(* Bounds of the model *)

MaxPoints == 2      \* longest control-point array a caller passes
MaxRes == 2         \* largest lut_size a LUT is generated for
MaxDuration == 1    \* longest measured processing time
PowDen == 8         \* std::pow of a fractional exponent is rounded to 1/PowDen

(* Program constants *)

DEFAULT_LUT_SIZE == 4096

CURVE_SUCCESS == 0
CURVE_ERROR_INVALID_PARAMS == -1
CURVE_ERROR_OUT_OF_MEMORY == -2
CURVE_ERROR_NOT_INITIALIZED == -3

CURVE_TYPE_LINEAR == 0
CURVE_TYPE_CUBIC_SPLINE == 1
CURVE_TYPE_BEZIER == 2
CURVE_TYPE_PARAMETRIC == 3
CURVE_TYPE_AI_OPTIMIZED == 4

CHANNEL_RGB == 0
CHANNEL_RED == 1
CHANNEL_GREEN == 2
CHANNEL_BLUE == 3
CHANNEL_LUMINANCE == 4
CHANNEL_LAB_L == 5
CHANNEL_LAB_A == 6
CHANNEL_LAB_B == 7

\* a pointer is the sequence of what it points to: empty when null
NULL == <<>>
Ptr(v) == <<v>>
Deref(p) == p[1]

\* a variable of the caller that a call may write through a pointer holds
\* <<>> until the call writes it and <<v>> once v is written
Unwritten == <<>>
Written(v) == <<v>>

\* an output byte the call has not written
Untouched == -1

\* the value a call returned; a void function returns nothing
Returned(code) == <<code>>
NoReturn == <<>>

----------------------------------------------------------------------------
(* double arithmetic *)

Abs(n) == IF n < 0 THEN -n ELSE n

RECURSIVE Gcd(_, _)
Gcd(a, b) == IF b = 0 THEN a ELSE Gcd(b, a % b)

\* the finite value n/d (d # 0) in lowest terms
Frac(n, d) ==
    LET g == Gcd(Abs(n), Abs(d))
        s == IF d < 0 THEN -1 ELSE 1
    IN  <<(s * n) \div g, (s * d) \div g>>

NaN == <<0, 0>>
PInf == <<1, 0>>
NInf == <<-1, 0>>
Zero == <<0, 1>>
One == <<1, 1>>
Int2D(n) == <<n, 1>>

IsNaN(a) == a = NaN
IsInf(a) == a[2] = 0 /\ a[1] # 0
IsFinite(a) == a[2] > 0
Sign(a) == IF a[1] > 0 THEN 1 ELSE IF a[1] < 0 THEN -1 ELSE 0
InfOf(s) == IF s > 0 THEN PInf ELSE NInf

\* a < b; false when either is NaN
Lt(a, b) ==
    IF IsNaN(a) \/ IsNaN(b) THEN FALSE
    ELSE IF IsInf(a) /\ IsInf(b) THEN a[1] < b[1]
    ELSE a[1] * b[2] < b[1] * a[2]

\* a <= b; false when either is NaN
Le(a, b) == ~IsNaN(a) /\ ~IsNaN(b) /\ ~Lt(b, a)

Neg(a) == <<-a[1], a[2]>>

Add(a, b) ==
    IF IsNaN(a) \/ IsNaN(b) THEN NaN
    ELSE IF IsInf(a) /\ IsInf(b) THEN (IF a = b THEN a ELSE NaN)
    ELSE IF IsInf(a) THEN a
    ELSE IF IsInf(b) THEN b
    ELSE Frac(a[1] * b[2] + b[1] * a[2], a[2] * b[2])

Sub(a, b) == Add(a, Neg(b))

Mul(a, b) ==
    IF IsNaN(a) \/ IsNaN(b) THEN NaN
    ELSE IF IsInf(a) \/ IsInf(b)
         THEN (IF Sign(a) * Sign(b) = 0 THEN NaN ELSE InfOf(Sign(a) * Sign(b)))
    ELSE Frac(a[1] * b[1], a[2] * b[2])

\* a / b; every zero divisor the program computes is +0
Div(a, b) ==
    IF IsNaN(a) \/ IsNaN(b) THEN NaN
    ELSE IF IsInf(b) THEN (IF IsInf(a) THEN NaN ELSE Zero)
    ELSE IF Sign(b) = 0 THEN (IF Sign(a) = 0 THEN NaN ELSE InfOf(Sign(a)))
    ELSE IF IsInf(a) THEN InfOf(Sign(a) * Sign(b))
    ELSE Frac(a[1] * b[2], a[2] * b[1])

\* std::clamp(v, lo, hi): (v < lo) ? lo : (hi < v) ? hi : v, so NaN stays NaN
StdClamp(v, lo, hi) == IF Lt(v, lo) THEN lo ELSE IF Lt(hi, v) THEN hi ELSE v

In01(v) == Le(Zero, v) /\ Le(v, One)

\* std::pow(x, g) for the arguments generateParametricLUT passes: x >= 0 or NaN,
\* g >= 0, +inf or NaN.  An integral g is exact; a fractional g = p/q gives the
\* value rounded down to a multiple of 1/PowDen.
StdPow(x, g) ==
    IF g = Zero THEN One
    ELSE IF x = One THEN One
    ELSE IF IsNaN(x) \/ IsNaN(g) THEN NaN
    ELSE IF g = PInf THEN (IF Lt(x, One) THEN Zero ELSE PInf)
    ELSE IF Sign(x) = 0 THEN Zero
    ELSE IF g[2] = 1 THEN Frac(x[1] ^ g[1], x[2] ^ g[1])
    ELSE LET ks == {k \in 0..PowDen :
                       (k ^ g[2]) * (x[2] ^ g[1]) <= (x[1] ^ g[1]) * (PowDen ^ g[2])}
             k == CHOOSE m \in ks : \A o \in ks : o <= m
         IN  Frac(k, PowDen)

----------------------------------------------------------------------------
(* CubicSplineInterpolator *)

\* points[i] of the C++ vector, i from 0
PX(points, i) == points[i + 1].x
PY(points, i) == points[i + 1].y

Two == Int2D(2)
Three == Int2D(3)

\* the slope term left out of b: every segment is level at its left end's y
calculateSplineSegments_Level(points) ==
    IF Len(points) < 2 THEN <<>>
    ELSE [k \in 1..(Len(points) - 1) |->
            [a |-> PY(points, k - 1), b |-> Zero, c |-> Zero, d |-> Zero,
             x_start |-> PX(points, k - 1), x_end |-> PX(points, k)]]

calculateSplineSegments(points) ==
    LET n == Len(points)
        h == [i \in 0..(n - 2) |-> Sub(PX(points, i + 1), PX(points, i))]
        alpha == [i \in 1..(n - 2) |->
                    Sub(Mul(Div(Three, h[i]), Sub(PY(points, i + 1), PY(points, i))),
                        Mul(Div(Three, h[i - 1]), Sub(PY(points, i), PY(points, i - 1))))]
        \* the forward sweep: l[i], mu[i], z[i]
        fwd[i \in 0..(n - 2)] ==
            IF i = 0 THEN [l |-> One, mu |-> Zero, z |-> Zero]
            ELSE LET li == Sub(Mul(Two, Sub(PX(points, i + 1), PX(points, i - 1))),
                               Mul(h[i - 1], fwd[i - 1].mu))
                 IN  [l |-> li,
                      mu |-> Div(h[i], li),
                      z |-> Div(Sub(alpha[i], Mul(h[i - 1], fwd[i - 1].z)), li)]
        \* back substitution: c[n-1] = 0, c[j] = z[j] - mu[j] * c[j+1]
        c[j \in 0..(n - 1)] ==
            IF j = n - 1 THEN Zero
            ELSE Sub(fwd[j].z, Mul(fwd[j].mu, c[j + 1]))
        b == [j \in 0..(n - 2) |->
                Sub(Div(Sub(PY(points, j + 1), PY(points, j)), h[j]),
                    Div(Mul(h[j], Add(c[j + 1], Mul(Two, c[j]))), Three))]
        d == [j \in 0..(n - 2) |-> Div(Sub(c[j + 1], c[j]), Mul(Three, h[j]))]
    IN  IF n < 2 THEN <<>>
        ELSE [k \in 1..(n - 1) |->
                [a |-> PY(points, k - 1), b |-> b[k - 1], c |-> c[k - 1], d |-> d[k - 1],
                 x_start |-> PX(points, k - 1), x_end |-> PX(points, k)]]

\* a + b*dx + c*dx*dx + d*dx*dx*dx, in the order C++ evaluates it
SegmentPoly(seg, dx) ==
    Add(Add(Add(seg.a, Mul(seg.b, dx)),
            Mul(Mul(seg.c, dx), dx)),
        Mul(Mul(Mul(seg.d, dx), dx), dx))

\* std::lower_bound over the segments with seg.x_end < val: the first segment
\* whose x_end is not below val, or Len+1 (end) when there is none
LowerBound(segments, x) ==
    LET hits == {k \in 1..Len(segments) : ~Lt(segments[k].x_end, x)}
    IN  IF hits = {} THEN Len(segments) + 1
        ELSE CHOOSE k \in hits : \A o \in hits : k <= o

\* no clamp of x: outside the breakpoints the boundary segment's polynomial
\* is evaluated at x - x_start
evaluate_Extended(segments, x) ==
    IF segments = <<>> THEN x
    ELSE LET it == LowerBound(segments, x)
             segment == IF it = Len(segments) + 1 THEN segments[Len(segments)]
                        ELSE segments[it]
         IN  SegmentPoly(segment, Sub(x, segment.x_start))

evaluate(segments, x) ==
    IF segments = <<>> THEN x
    ELSE IF Le(x, segments[1].x_start) THEN segments[1].a
    ELSE IF Le(segments[Len(segments)].x_end, x)
         THEN LET last == segments[Len(segments)]
              IN  SegmentPoly(last, Sub(last.x_end, last.x_start))
    ELSE LET it == LowerBound(segments, x)
             segment == IF it = Len(segments) + 1 THEN segments[Len(segments)]
                        ELSE segments[it]
         IN  SegmentPoly(segment, Sub(x, segment.x_start))

----------------------------------------------------------------------------
(* LookupTableGenerator *)

\* static_cast<double>(i) / (size - 1), for LUT index i from 0
SampleX(i, size) == Div(Int2D(i), Int2D(size - 1))

\* the segment found, but its left end's y returned: the interpolation left out
linearInterpolate_Step(points, x) ==
    IF points = <<>> THEN x
    ELSE IF Len(points) = 1 THEN points[1].y
    ELSE IF Le(x, points[1].x) THEN points[1].y
    ELSE IF Le(points[Len(points)].x, x) THEN points[Len(points)].y
    ELSE LET found == {i \in 0..(Len(points) - 2) :
                          Le(PX(points, i), x) /\ Le(x, PX(points, i + 1))}
         IN  IF found = {} THEN x
             ELSE PY(points, CHOOSE k \in found : \A o \in found : k <= o)

linearInterpolate(points, x) ==
    IF points = <<>> THEN x
    ELSE IF Len(points) = 1 THEN points[1].y
    ELSE IF Le(x, points[1].x) THEN points[1].y
    ELSE IF Le(points[Len(points)].x, x) THEN points[Len(points)].y
    ELSE LET found == {i \in 0..(Len(points) - 2) :
                          Le(PX(points, i), x) /\ Le(x, PX(points, i + 1))}
         IN  IF found = {} THEN x
             ELSE LET i == CHOOSE k \in found : \A o \in found : k <= o
                      t == Div(Sub(x, PX(points, i)), Sub(PX(points, i + 1), PX(points, i)))
                  IN  Add(PY(points, i), Mul(t, Sub(PY(points, i + 1), PY(points, i))))

\* De Casteljau: round r replaces temp[j].y by (1-t)*temp[j].y + t*temp[j+1].y
RECURSIVE DeCasteljau(_, _)
DeCasteljau(ys, t) ==
    IF Len(ys) = 1 THEN ys[1]
    ELSE DeCasteljau([j \in 1..(Len(ys) - 1) |->
                         Add(Mul(Sub(One, t), ys[j]), Mul(t, ys[j + 1]))], t)

\* every round takes the midpoints, whatever t is
evaluateBezier_Midpoints(points, t) ==
    IF points = <<>> THEN t
    ELSE StdClamp(DeCasteljau([j \in 1..Len(points) |-> points[j].y], Frac(1, 2)), Zero, One)

evaluateBezier(points, t) ==
    IF points = <<>> THEN t
    ELSE StdClamp(DeCasteljau([j \in 1..Len(points) |-> points[j].y], t), Zero, One)

generateLinearLUT(points, size) ==
    [k \in 1..size |-> linearInterpolate(points, SampleX(k - 1, size))]

generateCubicSplineLUT(points, size) ==
    LET segments == calculateSplineSegments(points)
    IN  [k \in 1..size |-> StdClamp(evaluate(segments, SampleX(k - 1, size)), Zero, One)]

generateBezierLUT(points, size) ==
    [k \in 1..size |-> evaluateBezier(points, SampleX(k - 1, size))]

ParametricGamma(points) ==
    IF Len(points) > 2 THEN Div(points[2].y, points[2].x) ELSE One

generateParametricLUT(points, size) ==
    LET gamma == ParametricGamma(points)
        lift == IF points = <<>> THEN Zero ELSE points[1].y
        gain == IF Len(points) > 1 THEN points[Len(points)].y ELSE One
    IN  [k \in 1..size |->
            StdClamp(Add(lift, Mul(Sub(gain, lift), StdPow(SampleX(k - 1, size), gamma))),
                     Zero, One)]

\* the fallback of the AI path taken to the linear generator
generateAIOptimizedLUT_Linear(points, size) == generateLinearLUT(points, size)

generateAIOptimizedLUT(points, size) == generateCubicSplineLUT(points, size)

\* std::vector<double> lut(size) is zero-filled; a type the switch does not
\* name leaves it so.  size >= 0 here: a negative size throws (LutSizeThrows).
generateOptimizedLUT(points, type, size) ==
    IF type = CURVE_TYPE_LINEAR THEN generateLinearLUT(points, size)
    ELSE IF type = CURVE_TYPE_CUBIC_SPLINE THEN generateCubicSplineLUT(points, size)
    ELSE IF type = CURVE_TYPE_BEZIER THEN generateBezierLUT(points, size)
    ELSE IF type = CURVE_TYPE_PARAMETRIC THEN generateParametricLUT(points, size)
    ELSE IF type = CURVE_TYPE_AI_OPTIMIZED THEN generateAIOptimizedLUT(points, size)
    ELSE [k \in 1..size |-> Zero]

\* std::vector<double>(size) with a negative int size converts it to a size_t
\* above max_size() and throws std::length_error
LutSizeThrows(size) == size < 0

\* the values calculateSplineSegments divides by: h[i] and h[i-1] in alpha[i],
\* l[i] in mu[i] and z[i], h[j] in b[j] and 3.0 * h[j] in d[j]
SplineDivisors(points) ==
    LET n == Len(points)
        h == [i \in 0..(n - 2) |-> Sub(PX(points, i + 1), PX(points, i))]
        l[i \in 0..(n - 2)] ==
            IF i = 0 THEN [l |-> One, mu |-> Zero]
            ELSE LET li == Sub(Mul(Two, Sub(PX(points, i + 1), PX(points, i - 1))),
                               Mul(h[i - 1], l[i - 1].mu))
                 IN  [l |-> li, mu |-> Div(h[i], li)]
    IN  {h[j] : j \in 0..(n - 2)} \cup {Mul(Three, h[j]) : j \in 0..(n - 2)}
            \cup {l[i].l : i \in 1..(n - 2)}

\* the value linearInterpolate divides by for x, if it reaches the division:
\* points[i + 1].x - points[i].x of the first interval that holds x
LinearDivisors(points, x) ==
    IF Len(points) < 2 THEN {}
    ELSE IF Le(x, points[1].x) \/ Le(points[Len(points)].x, x) THEN {}
    ELSE LET found == {i \in 0..(Len(points) - 2) :
                          Le(PX(points, i), x) /\ Le(x, PX(points, i + 1))}
         IN  IF found = {} THEN {}
             ELSE LET i == CHOOSE k \in found : \A o \in found : k <= o
                  IN  {Sub(PX(points, i + 1), PX(points, i))}

\* points[1].x, which generateParametricLUT divides points[1].y by
ParametricDivisors(points) == IF Len(points) > 2 THEN {points[2].x} ELSE {}

\* every value generateOptimizedLUT divides by: size - 1 for each sample x,
\* and the divisors of the generator the type selects
Divisors(points, type, size) ==
    {Int2D(size - 1)} \cup
    (IF type = CURVE_TYPE_LINEAR
     THEN UNION {LinearDivisors(points, SampleX(k - 1, size)) : k \in 1..size}
     ELSE IF type = CURVE_TYPE_CUBIC_SPLINE \/ type = CURVE_TYPE_AI_OPTIMIZED
     THEN SplineDivisors(points)
     ELSE IF type = CURVE_TYPE_PARAMETRIC THEN ParametricDivisors(points)
     ELSE {})

----------------------------------------------------------------------------
(* ImageCurveProcessor *)

\* static_cast<uint8_t>(std::clamp(result * 255.0 + 0.5, 0.0, 255.0)); the
\* conversion of NaN is undefined and yields the byte undef
ToByte(result, undef) ==
    LET v == StdClamp(Add(Mul(result, Int2D(255)), Frac(1, 2)), Zero, Int2D(255))
    IN  IF IsNaN(v) THEN undef ELSE v[1] \div v[2]

\* a slip in the scale: lut_scale = lut_size instead of lut_size - 1
LutLookup_ScaleBySize(table, value, undef) ==
    IF Len(table) = 0 THEN undef
    ELSE LET lut_pos == Mul(Frac(value, 255), Int2D(Len(table)))
             lut_index == lut_pos[1] \div lut_pos[2]
             frac == Sub(lut_pos, Int2D(lut_index))
             result == IF lut_index >= Len(table) - 1 THEN table[Len(table)]
                       ELSE Add(table[lut_index + 1],
                                Mul(frac, Sub(table[lut_index + 2], table[lut_index + 1])))
         IN  ToByte(result, undef)

\* the LUT lookup of one 8-bit sample.  An empty LUT makes lut_scale
\* (size_t)0 - 1 and the read lut[lut_size - 1] out of bounds: undefined.
LutLookup(table, value, undef) ==
    IF Len(table) = 0 THEN undef
    ELSE LET lut_scale == Int2D(Len(table) - 1)
             lut_pos == Mul(Frac(value, 255), lut_scale)
             lut_index == lut_pos[1] \div lut_pos[2]
             frac == Sub(lut_pos, Int2D(lut_index))
             result == IF lut_index >= Len(table) - 1 THEN table[Len(table)]
                       ELSE Add(table[lut_index + 1],
                                Mul(frac, Sub(table[lut_index + 2], table[lut_index + 1])))
         IN  ToByte(result, undef)

\* the enumerator's value taken for the index: CHANNEL_RGB = 0 comes first
getChannelIndex_EnumValue(channel) ==
    IF channel = CHANNEL_RED \/ channel = CHANNEL_GREEN \/ channel = CHANNEL_BLUE
    THEN channel ELSE -1

getChannelIndex(channel) ==
    IF channel = CHANNEL_RED THEN 0
    ELSE IF channel = CHANNEL_GREEN THEN 1
    ELSE IF channel = CHANNEL_BLUE THEN 2
    ELSE -1

Min(a, b) == IF a < b THEN a ELSE b

\* the alpha copy at the end of the pixel loop left out
WritesChannel_NoAlphaCopy(channel, channels, c) ==
    \/ (channel = CHANNEL_RGB \/ channel = CHANNEL_LUMINANCE) /\ c < Min(3, channels)
    \/ /\ channel # CHANNEL_RGB /\ channel # CHANNEL_LUMINANCE
       /\ getChannelIndex(channel) >= 0 /\ getChannelIndex(channel) < channels

\* whether the loop body writes channel c of a pixel, and what it writes
\* given the pixel's input samples src (src[c+1] is channel c)
WritesChannel(channel, channels, c) ==
    \/ (channel = CHANNEL_RGB \/ channel = CHANNEL_LUMINANCE) /\ c < Min(3, channels)
    \/ /\ channel # CHANNEL_RGB /\ channel # CHANNEL_LUMINANCE
       /\ getChannelIndex(channel) >= 0 /\ getChannelIndex(channel) < channels
    \/ channels = 4 /\ c = 3

\* the Luminance target taken for a target that transforms nothing
PixelByte_LuminanceCopies(table, channel, channels, c, value, undef) ==
    IF channels = 4 /\ c = 3 THEN value
    ELSE IF channel = CHANNEL_RGB THEN LutLookup(table, value, undef)
    ELSE IF c = getChannelIndex(channel) THEN LutLookup(table, value, undef)
    ELSE value

PixelByte(table, channel, channels, c, value, undef) ==
    IF channels = 4 /\ c = 3 THEN value
    ELSE IF channel = CHANNEL_RGB \/ channel = CHANNEL_LUMINANCE
         THEN LutLookup(table, value, undef)
    ELSE IF c = getChannelIndex(channel) THEN LutLookup(table, value, undef)
    ELSE value

\* a store is skipped where the output already holds a stored byte
applyLUTCPU_KeepsWritten(table, input, dst, dst_stride, channel, undef) ==
    [k \in 1..Len(dst) |->
        LET y == (k - 1) \div dst_stride
            r == (k - 1) % dst_stride
            x == r \div input.channels
            c == r % input.channels
        IN  IF /\ y < input.height /\ x < input.width
               /\ WritesChannel(channel, input.channels, c)
               /\ dst[k] = Untouched
            THEN PixelByte(table, channel, input.channels, c,
                           input.data[y * input.stride + x * input.channels + c + 1], undef)
            ELSE dst[k]]

\* the output buffer after the row loop: byte y*stride + x*channels + c
\* (offsets from 0) of dst is written from the same pixel of src
applyLUTCPU(table, input, dst, dst_stride, channel, undef) ==
    [k \in 1..Len(dst) |->
        LET y == (k - 1) \div dst_stride
            r == (k - 1) % dst_stride
            x == r \div input.channels
            c == r % input.channels
        IN  IF y < input.height /\ x < input.width /\ WritesChannel(channel, input.channels, c)
            THEN PixelByte(table, channel, input.channels, c,
                           input.data[y * input.stride + x * input.channels + c + 1], undef)
            ELSE dst[k]]

\* options.use_gpu && isGPUAvailable() selects applyLUTGPU, which falls back
\* to applyLUTCPU; isGPUAvailable() is false without OPENCL/DIRECTML
applyLUTToImage(table, input, dst, dst_stride, channel, options, undef) ==
    applyLUTCPU(table, input, dst, dst_stride, channel, undef)

----------------------------------------------------------------------------
(* What callers pass *)

\* addresses curve_create may return: one live curve at a time under Spec,
\* two under SpecHeap
CurveIds == {1}
HeapIds == {1, 2}

\* control points a caller passes: below, inside and above [0,1] in x and in y;
\* the first two have equal x once clamped
Pt(xn, xd, yn, yd) == [x |-> Frac(xn, xd), y |-> Frac(yn, yd)]
InputPoints == {Pt(-1, 2, 3, 2), Pt(0, 1, 1, 2), Pt(3, 2, -1, 2)}

RECURSIVE SeqsOfLen(_, _)
SeqsOfLen(S, n) ==
    IF n = 0 THEN {<<>>}
    ELSE {Append(q, e) : q \in SeqsOfLen(S, n - 1), e \in S}

PointArrays == UNION {SeqsOfLen(InputPoints, n) : n \in 0..MaxPoints}

\* CurveType values a caller passes: the five enumerators and one value outside
CurveTypes == {CURVE_TYPE_LINEAR, CURVE_TYPE_CUBIC_SPLINE, CURVE_TYPE_BEZIER,
               CURVE_TYPE_PARAMETRIC, CURVE_TYPE_AI_OPTIMIZED}
TypeInputs == CurveTypes \cup {CURVE_TYPE_AI_OPTIMIZED + 1}
HeapTypeInputs == {CURVE_TYPE_LINEAR}

\* values a caller stores in the public field CurveData::lut_size
LutSizeInputs == (-1)..MaxRes
HeapLutSizeInputs == {MaxRes}

\* outcome of the allocations of a call: none fails, a std::vector allocation
\* throws std::bad_alloc, or the new-expression of the call does
AllocOutcomes == {"ok", "vector", "new"}

\* bytes an undefined read or conversion may produce
UndefBytes == {0, 255}

Durations == 0..MaxDuration

\* an 8-bit image of the given shape; byte k (from 0) of the buffer is k*85 mod 256
Image(width, height, channels, pad) ==
    [width |-> width, height |-> height, channels |-> channels,
     stride |-> width * channels + pad,
     data |-> [k \in 1..((width * channels + pad) * height) |-> ((k - 1) * 85) % 256]]

\* a row of two RGB pixels without padding, two rows of one RGBA pixel with
Images == {Image(2, 1, 3, 0), Image(1, 2, 4, 1)}
Pads == {0, 1}

\* the caller's output ImageData for an input: same shape, its own stride,
\* every byte as the caller left it
OutputFor(input, pad) ==
    [width |-> input.width, height |-> input.height, channels |-> input.channels,
     stride |-> input.width * input.channels + pad,
     data |-> [k \in 1..((input.width * input.channels + pad) * input.height) |-> Untouched]]

OutputImages(input) ==
    {OutputFor(IF input = NULL THEN Image(2, 1, 3, 0) ELSE Deref(input), pad) : pad \in Pads}

Options == {[use_gpu |-> FALSE, thread_count |-> 0], [use_gpu |-> TRUE, thread_count |-> 2]}

\* the null pointer and a pointer to each element of S
PtrsTo(S) == {NULL} \cup {Ptr(v) : v \in S}

----------------------------------------------------------------------------
(* curve_create *)

\* a slip in the count test: one point is let through
CreateParamsInvalid_OnePoint(points, point_count, out_ref) ==
    points = NULL \/ point_count < 1 \/ out_ref = NULL

\* if (!points || point_count < 2 || !out_curve)
CreateParamsInvalid(points, point_count, out_ref) ==
    points = NULL \/ point_count < 2 \/ out_ref = NULL

\* a slip in the copy loop: y is copied without the clamp
ClampPoint_XOnly(p) == [x |-> StdClamp(p.x, Zero, One), y |-> p.y]

\* curve->points[i].x = std::clamp(points[i].x, 0.0, 1.0); likewise y
ClampPoint(p) == [x |-> StdClamp(p.x, Zero, One), y |-> StdClamp(p.y, Zero, One)]

\* what std::sort with a.x < b.x guarantees of its result
SortedByX(pts) == \A i, j \in 1..Len(pts) : i < j => ~Lt(pts[j].x, pts[i].x)

\* the sort left out: the points stay in the caller's order
SortOutcomes_Unsorted(pts) == {pts}

\* std::sort is not stable: any ordering by x of the same elements may result
SortOutcomes(pts) ==
    {q \in {[i \in 1..Len(pts) |-> pts[pm[i]]] : pm \in Permutations(1..Len(pts))} :
        SortedByX(q)}

\* the first point_count elements of the caller's array, clamped
ClampedPoints(points, point_count) == [i \in 1..point_count |-> ClampPoint(points[i])]

NewCurveData(stored, point_count, type) ==
    [points |-> stored, point_count |-> point_count, type |-> type,
     channel |-> CHANNEL_RGB, gamma |-> One, black_point |-> Zero,
     white_point |-> One, lut_size |-> DEFAULT_LUT_SIZE]

\* the initialization test left out of curve_create
CreateStatus_NoInitCheck(points, point_count, out_ref, initialized, alloc) ==
    IF points = NULL \/ point_count < 2 \/ out_ref = NULL THEN CURVE_ERROR_INVALID_PARAMS
    ELSE IF alloc # "ok" THEN CURVE_ERROR_OUT_OF_MEMORY
    ELSE CURVE_SUCCESS

\* the return value of curve_create
CreateStatus(points, point_count, out_ref, initialized, alloc) ==
    IF CreateParamsInvalid(points, point_count, out_ref) THEN CURVE_ERROR_INVALID_PARAMS
    ELSE IF ~initialized THEN CURVE_ERROR_NOT_INITIALIZED
    ELSE IF alloc # "ok" THEN CURVE_ERROR_OUT_OF_MEMORY
    ELSE CURVE_SUCCESS

\* the addresses of the live CurveData objects
LiveIds == DOMAIN heap

\* the caller is between two calls
Idle == op = "none"

\* an API call runs its loops to the end within the call, and the caller is
\* one thread
LoopsAtRest == UNCHANGED <<omp, writers, applied, pc, g_state_mutex>>

NoOutputs ==
    /\ out_curve' = Unwritten
    /\ lut' = Unwritten
    /\ lut_size' = Unwritten
    /\ output' = <<>>

CreateCall(ids, types) ==
    /\ Idle
    /\ LoopsAtRest
    /\ \E points \in PtrsTo(PointArrays), type \in types,
          out_ref \in PtrsTo({"out_curve"}), alloc \in {"ok", "new"} :
       \E point_count \in (IF points = NULL THEN 0..MaxPoints ELSE {Len(Deref(points))}) :
        LET status == CreateStatus(points, point_count, out_ref, g_initialized, alloc)
            FreeIds == ids \ LiveIds
        IN  /\ op' = "curve_create"
            /\ args' = [points |-> points, point_count |-> point_count,
                        type |-> type, out_curve |-> out_ref]
            /\ ret' = Returned(status)
            /\ lut' = Unwritten
            /\ lut_size' = Unwritten
            /\ output' = <<>>
            /\ UNCHANGED <<g_initialized, g_perf_stats>>
            /\ IF status = CURVE_SUCCESS
               THEN /\ FreeIds # {}
                    /\ \E stored \in SortOutcomes(ClampedPoints(Deref(points), point_count)) :
                         LET id == CHOOSE f \in FreeIds : \A o \in FreeIds : f <= o
                         IN  /\ heap' = [i \in LiveIds \cup {id} |->
                                           IF i = id THEN NewCurveData(stored, point_count, type)
                                           ELSE heap[i]]
                             /\ out_curve' = Written(Ptr(id))
               ELSE /\ out_curve' = Unwritten
                    /\ UNCHANGED heap

curve_create == CreateCall(CurveIds, TypeInputs)

(* curve_destroy *)

curve_destroy ==
    /\ Idle
    /\ LoopsAtRest
    /\ \E curve \in PtrsTo(LiveIds) :
        /\ op' = "curve_destroy"
        /\ args' = [curve |-> curve]
        /\ ret' = NoReturn
        /\ heap' = IF curve = NULL THEN heap
                   ELSE [i \in LiveIds \ {Deref(curve)} |-> heap[i]]
        /\ NoOutputs
        /\ UNCHANGED <<g_initialized, g_perf_stats>>

(* the caller stores into the public field lut_size of a curve it holds *)

SetLutSizeCall(sizes) ==
    /\ Idle
    /\ LoopsAtRest
    /\ \E id \in LiveIds, size \in sizes :
        /\ op' = "set_lut_size"
        /\ args' = [curve |-> Ptr(id), lut_size |-> size]
        /\ ret' = NoReturn
        /\ heap' = [heap EXCEPT ![id].lut_size = size]
        /\ NoOutputs
        /\ UNCHANGED <<g_initialized, g_perf_stats>>

set_lut_size == SetLutSizeCall(LutSizeInputs)

----------------------------------------------------------------------------
(* curve_initialize, curve_cleanup *)

\* the statistics are cleared by every curve_initialize
StatsAfterInitialize_AlwaysReset(initialized, stats) == 0

\* if (g_initialized) return CURVE_SUCCESS; otherwise g_perf_stats = {}
StatsAfterInitialize(initialized, stats) == IF initialized THEN stats ELSE 0

curve_initialize ==
    /\ Idle
    /\ LoopsAtRest
    /\ op' = "curve_initialize"
    /\ args' = <<>>
    /\ ret' = Returned(CURVE_SUCCESS)
    /\ g_perf_stats' = StatsAfterInitialize(g_initialized, g_perf_stats)
    /\ g_initialized' = TRUE
    /\ NoOutputs
    /\ UNCHANGED heap

curve_cleanup ==
    /\ Idle
    /\ LoopsAtRest
    /\ op' = "curve_cleanup"
    /\ args' = <<>>
    /\ ret' = NoReturn
    /\ g_initialized' = FALSE
    /\ NoOutputs
    /\ UNCHANGED <<g_perf_stats, heap>>

----------------------------------------------------------------------------
(* curve_generate_lut *)

\* if (!curve || !lut || !lut_size)
GenerateParamsInvalid(curve, lut_ref, size_ref) ==
    curve = NULL \/ lut_ref = NULL \/ size_ref = NULL

\* curve_generate_lut given the initialization test of its two neighbours
GenerateStatus_ChecksInit(curve, lut_ref, size_ref, size, alloc) ==
    IF curve = NULL \/ lut_ref = NULL \/ size_ref = NULL THEN CURVE_ERROR_INVALID_PARAMS
    ELSE IF ~g_initialized THEN CURVE_ERROR_NOT_INITIALIZED
    ELSE IF alloc = "vector" THEN CURVE_ERROR_OUT_OF_MEMORY
    ELSE IF size < 0 THEN CURVE_ERROR_INVALID_PARAMS
    ELSE IF alloc = "new" THEN CURVE_ERROR_OUT_OF_MEMORY
    ELSE CURVE_SUCCESS

\* the return value of curve_generate_lut for a curve whose lut_size is size
GenerateStatus(curve, lut_ref, size_ref, size, alloc) ==
    IF GenerateParamsInvalid(curve, lut_ref, size_ref) THEN CURVE_ERROR_INVALID_PARAMS
    ELSE IF alloc = "vector" THEN CURVE_ERROR_OUT_OF_MEMORY
    ELSE IF LutSizeThrows(size) THEN CURVE_ERROR_INVALID_PARAMS
    ELSE IF alloc = "new" THEN CURVE_ERROR_OUT_OF_MEMORY
    ELSE CURVE_SUCCESS

\* *lut_size = generated_lut.size() runs before *lut = new double[*lut_size]
WritesLutSize(status, alloc) ==
    status = CURVE_SUCCESS \/ (status = CURVE_ERROR_OUT_OF_MEMORY /\ alloc = "new")

\* curve->lut_size of the curve a pointer names
LutSizeOf(curve) == IF curve = NULL THEN 0 ELSE heap[Deref(curve)].lut_size

\* the LUT of a live curve: generateOptimizedLUT(points, curve->type, curve->lut_size)
CurveLUT(curve) ==
    generateOptimizedLUT(heap[Deref(curve)].points, heap[Deref(curve)].type,
                         heap[Deref(curve)].lut_size)

curve_generate_lut ==
    /\ Idle
    /\ LoopsAtRest
    /\ \E curve \in {c \in PtrsTo(LiveIds) : LutSizeOf(c) <= MaxRes},
          lut_ref \in PtrsTo({"lut"}), size_ref \in PtrsTo({"lut_size"}),
          alloc \in AllocOutcomes :
        LET size == LutSizeOf(curve)
            status == GenerateStatus(curve, lut_ref, size_ref, size, alloc)
        IN  /\ op' = "curve_generate_lut"
            /\ args' = [curve |-> curve, lut |-> lut_ref, lut_size |-> size_ref]
            /\ ret' = Returned(status)
            /\ lut_size' = IF WritesLutSize(status, alloc) THEN Written(size) ELSE Unwritten
            /\ lut' = IF status = CURVE_SUCCESS THEN Written(CurveLUT(curve)) ELSE Unwritten
            /\ out_curve' = Unwritten
            /\ output' = <<>>
            /\ UNCHANGED <<g_initialized, g_perf_stats, heap>>

----------------------------------------------------------------------------
(* curve_apply_to_image *)

\* if (!curve || !input || !output)
ApplyParamsInvalid(curve, input, out) == curve = NULL \/ input = NULL \/ out = NULL

\* the two tests of curve_apply_to_image in the other order
ApplyStatus_InitFirst(curve, input, out, initialized, size, alloc) ==
    IF ~initialized THEN CURVE_ERROR_NOT_INITIALIZED
    ELSE IF curve = NULL \/ input = NULL \/ out = NULL THEN CURVE_ERROR_INVALID_PARAMS
    ELSE IF alloc = "vector" \/ size < 0 THEN CURVE_ERROR_INVALID_PARAMS
    ELSE CURVE_SUCCESS

\* the return value of curve_apply_to_image; every exception of the try block,
\* std::bad_alloc and std::length_error alike, is caught as std::exception
ApplyStatus(curve, input, out, initialized, size, alloc) ==
    IF ApplyParamsInvalid(curve, input, out) THEN CURVE_ERROR_INVALID_PARAMS
    ELSE IF ~initialized THEN CURVE_ERROR_NOT_INITIALIZED
    ELSE IF alloc = "vector" \/ LutSizeThrows(size) THEN CURVE_ERROR_INVALID_PARAMS
    ELSE CURVE_SUCCESS

curve_apply_to_image ==
    /\ Idle
    /\ LoopsAtRest
    /\ \E curve \in {c \in PtrsTo(LiveIds) : LutSizeOf(c) <= MaxRes},
          input \in PtrsTo(Images), options \in PtrsTo(Options),
          alloc \in {"ok", "vector"}, undef \in UndefBytes, duration \in Durations :
       \E out \in PtrsTo(OutputImages(input)) :
        LET size == LutSizeOf(curve)
            status == ApplyStatus(curve, input, out, g_initialized, size, alloc)
        IN  /\ op' = "curve_apply_to_image"
            /\ args' = [curve |-> curve, input |-> input, output |-> out,
                        options |-> options]
            /\ ret' = Returned(status)
            /\ output' = IF out = NULL THEN <<>>
                         ELSE IF status = CURVE_SUCCESS
                         THEN applyLUTToImage(CurveLUT(curve), Deref(input), Deref(out).data,
                                              Deref(out).stride, heap[Deref(curve)].channel,
                                              options, undef)
                         ELSE Deref(out).data
            /\ g_perf_stats' = IF status = CURVE_SUCCESS THEN duration ELSE g_perf_stats
            /\ out_curve' = Unwritten
            /\ lut' = Unwritten
            /\ lut_size' = Unwritten
            /\ UNCHANGED <<g_initialized, heap>>

----------------------------------------------------------------------------
Init ==
    /\ g_initialized = FALSE
    /\ g_perf_stats = 0
    /\ heap = <<>>
    /\ op = "none"
    /\ args = <<>>
    /\ ret = NoReturn
    /\ out_curve = Unwritten
    /\ lut = Unwritten
    /\ lut_size = Unwritten
    /\ output = <<>>
    /\ omp = <<>>
    /\ writers = <<>>
    /\ applied = 0
    /\ pc = <<>>
    /\ g_state_mutex = 0

\* the caller has looked at what the call returned and goes on to its next call
call_returns ==
    /\ ~Idle
    /\ LoopsAtRest
    /\ op' = "none"
    /\ args' = <<>>
    /\ ret' = NoReturn
    /\ NoOutputs
    /\ UNCHANGED <<g_initialized, g_perf_stats, heap>>

Next ==
    \/ curve_initialize
    \/ curve_cleanup
    \/ curve_create
    \/ curve_destroy
    \/ set_lut_size
    \/ curve_generate_lut
    \/ curve_apply_to_image
    \/ call_returns

Spec == Init /\ [][Next]_vars

\* the same calls over two addresses, with linear curves only
heap_create == CreateCall(HeapIds, HeapTypeInputs)
heap_set_lut_size == SetLutSizeCall(HeapLutSizeInputs)

NextHeap ==
    \/ curve_initialize
    \/ curve_cleanup
    \/ heap_create
    \/ curve_destroy
    \/ heap_set_lut_size
    \/ curve_generate_lut
    \/ curve_apply_to_image
    \/ call_returns

SpecHeap == Init /\ [][NextHeap]_vars

----------------------------------------------------------------------------
(* applyLUTCPU, one iteration of its parallel row loop at a time *)

MaxRows == 2
MaxThreads == 2

\* a slip in the pointer arithmetic: the row index is not scaled by the stride
DstRowStart_NoStride(y, stride) == y

\* uint8_t* dst_row = output.data + y * output.stride
DstRowStart(y, stride) == y * stride

\* every iteration reads the first row
SrcRowStart_FirstRow(y, stride) == 0

\* const uint8_t* src_row = input.data + y * input.stride
SrcRowStart(y, stride) == y * stride

\* pixel_offset + c for the x and c loops: x * channels + c, x < width, c < channels
RowOffsets(width, channels) == 0..(width * channels - 1)

\* the offsets (from 0) into output.data that iteration y stores to
RowStores(input, dst_stride, channel, y) ==
    {DstRowStart(y, dst_stride) + r :
        r \in {q \in RowOffsets(input.width, input.channels) :
                  WritesChannel(channel, input.channels, q % input.channels)}}

\* the iteration also clears its whole row, padding included, before it stores
applyRow_ClearsRow(table, input, dst, dst_stride, channel, y, undef) ==
    [k \in 1..Len(dst) |->
        IF (k - 1) \in RowStores(input, dst_stride, channel, y)
        THEN LET r == (k - 1) - DstRowStart(y, dst_stride)
             IN  PixelByte(table, channel, input.channels, r % input.channels,
                           input.data[SrcRowStart(y, input.stride) + r + 1], undef)
        ELSE IF (k - 1) \div dst_stride = y THEN 0
        ELSE dst[k]]

\* output.data after iteration y of the row loop
applyRow(table, input, dst, dst_stride, channel, y, undef) ==
    [k \in 1..Len(dst) |->
        IF (k - 1) \in RowStores(input, dst_stride, channel, y)
        THEN LET r == (k - 1) - DstRowStart(y, dst_stride)
             IN  PixelByte(table, channel, input.channels, r % input.channels,
                           input.data[SrcRowStart(y, input.stride) + r + 1], undef)
        ELSE dst[k]]

\* int thread_count = options.thread_count > 0 ? options.thread_count
\*                                             : std::thread::hardware_concurrency()
ThreadCount(options, hardware) ==
    IF options.thread_count > 0 THEN options.thread_count ELSE hardware

\* an image whose byte k (from 0) is seed + k*85 mod 256
ImageFrom(width, height, channels, pad, seed) ==
    [width |-> width, height |-> height, channels |-> channels,
     stride |-> width * channels + pad,
     data |-> [k \in 1..((width * channels + pad) * height) |-> (seed + (k - 1) * 85) % 256]]

\* rows of two RGB pixels without padding and rows of one RGBA pixel with
CpuImages ==
    {ImageFrom(2, h, 3, 0, 0) : h \in 1..MaxRows}
        \cup {ImageFrom(1, h, 4, 1, 128) : h \in 1..MaxRows}

Channels == CHANNEL_RGB..CHANNEL_LAB_B

\* the curves applied: linear through (0,0),(1,1), whose table is the identity
\* lut[i] = i/(size-1), and through (0,1),(1,0), whose table inverts; each
\* with every channel target and every lut_size from 2
IdentityPoints == <<Pt(0, 1, 0, 1), Pt(1, 1, 1, 1)>>
InvertPoints == <<Pt(0, 1, 1, 1), Pt(1, 1, 0, 1)>>
CpuCurves ==
    {[NewCurveData(points, 2, CURVE_TYPE_LINEAR) EXCEPT !.lut_size = n, !.channel = channel] :
        points \in {IdentityPoints, InvertPoints}, n \in 2..(MaxRes + 1),
        channel \in Channels}

\* the GPU is asked for exactly when a thread count is given: applyLUTToImage
\* reaches applyLUTCPU either way
CpuOptions == {[use_gpu |-> (n > 0), thread_count |-> n] : n \in 0..MaxThreads}

\* std::thread::hardware_concurrency() is called only when options.thread_count
\* is not positive; its value when it is not called is fixed at 1
HardwareConcurrency(options) ==
    IF options.thread_count > 0 THEN {1} ELSE 1..MaxThreads

\* curve_apply_to_image has reached applyLUTToImage(lut, *input, *output,
\* curve->channel, opts); no iteration of the row loop has run
InitCPU ==
    /\ g_initialized = TRUE
    /\ g_perf_stats = 0
    /\ out_curve = Unwritten
    /\ lut = Unwritten
    /\ lut_size = Unwritten
    /\ applied = 0
    /\ pc = <<>>
    /\ g_state_mutex = 0
    /\ op = "applyLUTToImage"
    /\ ret = NoReturn
    /\ \E curve \in CpuCurves, input \in CpuImages, pad \in Pads, options \in CpuOptions :
       \E hardware \in HardwareConcurrency(options) :
         /\ heap = <<curve>>
         /\ args = [curve |-> Ptr(1),
                    lut |-> generateOptimizedLUT(curve.points, curve.type, curve.lut_size),
                    input |-> input, output |-> OutputFor(input, pad),
                    channel |-> curve.channel, options |-> options,
                    hardware_concurrency |-> hardware]
         /\ output = OutputFor(input, pad).data
         /\ omp = [y \in 0..(input.height - 1) |-> 0]
         /\ writers = [k \in 0..(Len(OutputFor(input, pad).data) - 1) |-> {}]

\* #pragma omp parallel for num_threads(thread_count): some worker of the team
\* runs an iteration no worker has run yet
row_iteration ==
    /\ op = "applyLUTToImage"
    /\ \E y \in DOMAIN omp, t \in 1..ThreadCount(args.options, args.hardware_concurrency),
          undef \in UndefBytes :
         /\ omp[y] = 0
         /\ omp' = [omp EXCEPT ![y] = t]
         /\ output' = applyRow(args.lut, args.input, output, args.output.stride,
                               args.channel, y, undef)
         /\ writers' = [k \in DOMAIN writers |->
                           IF k \in RowStores(args.input, args.output.stride, args.channel, y)
                           THEN writers[k] \cup {y} ELSE writers[k]]
    /\ UNCHANGED <<g_initialized, g_perf_stats, heap, op, args, ret, out_curve, lut,
                   lut_size, applied, pc, g_state_mutex>>

NextCPU == row_iteration

SpecCPU == InitCPU /\ [][NextCPU]_vars

----------------------------------------------------------------------------
(* curve_apply_multi_channel: declared in AdvancedCurveProcessor.h; each curve
   is applied in turn, from the same input, onto the same output *)

MaxCurves == 2

\* the curves of a multi-curve apply: identity or inverting, on all channels,
\* red or green
MultiCurves ==
    {[NewCurveData(points, 2, CURVE_TYPE_LINEAR) EXCEPT !.lut_size = 2, !.channel = channel] :
        points \in {IdentityPoints, InvertPoints},
        channel \in {CHANNEL_RGB, CHANNEL_RED, CHANNEL_GREEN}}

MultiCurveArrays == UNION {SeqsOfLen(MultiCurves, n) : n \in 1..MaxCurves}

\* curve_apply_multi_channel(curves, curve_count, input, output, options) has
\* been called on an initialized engine; no curve has been applied yet
InitMulti ==
    /\ g_initialized = TRUE
    /\ g_perf_stats = 0
    /\ out_curve = Unwritten
    /\ lut = Unwritten
    /\ lut_size = Unwritten
    /\ omp = <<>>
    /\ writers = <<>>
    /\ applied = 0
    /\ pc = <<>>
    /\ g_state_mutex = 0
    /\ op = "curve_apply_multi_channel"
    /\ ret = NoReturn
    /\ \E curves \in MultiCurveArrays, input \in CpuImages, pad \in Pads, options \in Options :
         /\ heap = curves
         /\ args = [curves |-> [i \in 1..Len(curves) |-> Ptr(i)], curve_count |-> Len(curves),
                    input |-> input, output |-> OutputFor(input, pad), options |-> options]
         /\ output = OutputFor(input, pad).data

\* the next curve of the array is applied as curve_apply_to_image applies one
multi_apply_next ==
    /\ op = "curve_apply_multi_channel"
    /\ applied < args.curve_count
    /\ \E undef \in UndefBytes :
         output' = applyLUTToImage(CurveLUT(args.curves[applied + 1]), args.input, output,
                                   args.output.stride,
                                   heap[Deref(args.curves[applied + 1])].channel,
                                   args.options, undef)
    /\ applied' = applied + 1
    /\ UNCHANGED <<g_initialized, g_perf_stats, heap, op, args, ret, out_curve, lut,
                   lut_size, omp, writers, pc, g_state_mutex>>

NextMulti == multi_apply_next

SpecMulti == InitMulti /\ [][NextMulti]_vars

----------------------------------------------------------------------------
(* LookupTableGenerator::generateOptimizedLUT on the points of a curve *)

MaxLutPoints == 3
MaxLutSize == 5

\* coordinates a stored point can have: clamped to [0,1]
LutPointGrid == {Pt(xn, 2, yn, 2) : xn \in 0..2, yn \in 0..2}

\* the points of a curve as curve_create stores them: two or more, ascending
\* in x, equal x allowed
StoredPointArrays ==
    UNION {{q \in SeqsOfLen(LutPointGrid, n) : SortedByX(q)} : n \in 2..MaxLutPoints}

\* generateOptimizedLUT(points, type, size) has been called with the points
\* and type of a curve and a lut_size from 2
InitLUT ==
    /\ g_initialized = FALSE
    /\ g_perf_stats = 0
    /\ heap = <<>>
    /\ out_curve = Unwritten
    /\ lut = Unwritten
    /\ lut_size = Unwritten
    /\ output = <<>>
    /\ omp = <<>>
    /\ writers = <<>>
    /\ applied = 0
    /\ pc = <<>>
    /\ g_state_mutex = 0
    /\ op = "generateOptimizedLUT"
    /\ ret = NoReturn
    /\ \E points \in StoredPointArrays, type \in CurveTypes, size \in 2..MaxLutSize :
         args = [points |-> points, type |-> type, size |-> size]

\* the call returns the table
lut_returns ==
    /\ op = "generateOptimizedLUT"
    /\ ret = NoReturn
    /\ ret' = Returned(generateOptimizedLUT(args.points, args.type, args.size))
    /\ UNCHANGED <<g_initialized, g_perf_stats, heap, op, args, out_curve, lut, lut_size,
                   output, omp, writers, applied, pc, g_state_mutex>>

NextLUT == lut_returns

SpecLUT == InitLUT /\ [][NextLUT]_vars

----------------------------------------------------------------------------
(* The lifecycle calls, curve_create, curve_apply_to_image and
   curve_get_performance_stats called from several threads, one access to
   g_initialized, g_perf_stats or g_state_mutex at a time *)

MaxCallers == 2
Callers == 1..MaxCallers

\* the first statement of each call that touches the shared state; calls
\* whose arguments are rejected return before it
EntryPoints ==
    {"curve_initialize:lock", "curve_cleanup:lock", "curve_create:test",
     "curve_apply_to_image:test", "curve_get_performance_stats:lock"}

\* the statements that read or write g_initialized or g_perf_stats
SharedAccesses ==
    {"curve_initialize:test", "curve_initialize:stats", "curve_initialize:set",
     "curve_cleanup:test", "curve_cleanup:clear", "curve_create:test",
     "curve_apply_to_image:test", "curve_apply_to_image:stats",
     "curve_get_performance_stats:copy"}

\* thread t goes from statement from to statement to
Goes(t, from, to) == pc[t] = from /\ pc' = [pc EXCEPT ![t] = to]

CallerVarsUnchanged ==
    UNCHANGED <<heap, op, args, ret, out_curve, lut, lut_size, output, omp, writers, applied>>

InitThreads ==
    /\ g_initialized = FALSE
    /\ g_perf_stats = 0
    /\ heap = <<>>
    /\ op = "concurrent calls"
    /\ args = <<>>
    /\ ret = NoReturn
    /\ out_curve = Unwritten
    /\ lut = Unwritten
    /\ lut_size = Unwritten
    /\ output = <<>>
    /\ omp = <<>>
    /\ writers = <<>>
    /\ applied = 0
    /\ pc = [t \in Callers |-> "idle"]
    /\ g_state_mutex = 0

\* a thread calls one of the five functions
call_begins ==
    /\ \E t \in Callers, entry \in EntryPoints : Goes(t, "idle", entry)
    /\ UNCHANGED <<g_initialized, g_perf_stats, g_state_mutex>>
    /\ CallerVarsUnchanged

\* std::lock_guard<std::mutex> lock(g_state_mutex)
lock_guard ==
    /\ g_state_mutex = 0
    /\ \E t \in Callers :
         /\ \/ Goes(t, "curve_initialize:lock", "curve_initialize:test")
            \/ Goes(t, "curve_cleanup:lock", "curve_cleanup:test")
            \/ Goes(t, "curve_get_performance_stats:lock", "curve_get_performance_stats:copy")
         /\ g_state_mutex' = t
    /\ UNCHANGED <<g_initialized, g_perf_stats>>
    /\ CallerVarsUnchanged

\* the lock_guard goes out of scope as the function returns
lock_guard_released ==
    /\ \E t \in Callers :
         /\ g_state_mutex = t
         /\ \/ Goes(t, "curve_initialize:unlock", "idle")
            \/ Goes(t, "curve_cleanup:unlock", "idle")
            \/ Goes(t, "curve_get_performance_stats:unlock", "idle")
    /\ g_state_mutex' = 0
    /\ UNCHANGED <<g_initialized, g_perf_stats>>
    /\ CallerVarsUnchanged

\* curve_initialize: if (g_initialized) return CURVE_SUCCESS
initialize_test ==
    /\ \E t \in Callers :
         Goes(t, "curve_initialize:test",
              IF g_initialized THEN "curve_initialize:unlock" ELSE "curve_initialize:stats")
    /\ UNCHANGED <<g_initialized, g_perf_stats, g_state_mutex>>
    /\ CallerVarsUnchanged

\* curve_initialize: g_perf_stats = {}
initialize_stats ==
    /\ \E t \in Callers : Goes(t, "curve_initialize:stats", "curve_initialize:set")
    /\ g_perf_stats' = 0
    /\ UNCHANGED <<g_initialized, g_state_mutex>>
    /\ CallerVarsUnchanged

\* curve_initialize: g_initialized = true
initialize_set ==
    /\ \E t \in Callers : Goes(t, "curve_initialize:set", "curve_initialize:unlock")
    /\ g_initialized' = TRUE
    /\ UNCHANGED <<g_perf_stats, g_state_mutex>>
    /\ CallerVarsUnchanged

\* curve_cleanup: if (!g_initialized) return
cleanup_test ==
    /\ \E t \in Callers :
         Goes(t, "curve_cleanup:test",
              IF g_initialized THEN "curve_cleanup:clear" ELSE "curve_cleanup:unlock")
    /\ UNCHANGED <<g_initialized, g_perf_stats, g_state_mutex>>
    /\ CallerVarsUnchanged

\* curve_cleanup: g_initialized = false
cleanup_clear ==
    /\ \E t \in Callers : Goes(t, "curve_cleanup:clear", "curve_cleanup:unlock")
    /\ g_initialized' = FALSE
    /\ UNCHANGED <<g_perf_stats, g_state_mutex>>
    /\ CallerVarsUnchanged

\* curve_create: if (!g_initialized) return CURVE_ERROR_NOT_INITIALIZED; the
\* rest of the function touches no shared state
create_test ==
    /\ \E t \in Callers : Goes(t, "curve_create:test", "idle")
    /\ UNCHANGED <<g_initialized, g_perf_stats, g_state_mutex>>
    /\ CallerVarsUnchanged

\* curve_apply_to_image: if (!g_initialized) return CURVE_ERROR_NOT_INITIALIZED
apply_test ==
    /\ \E t \in Callers :
         Goes(t, "curve_apply_to_image:test",
              IF g_initialized THEN "curve_apply_to_image:stats" ELSE "idle")
    /\ UNCHANGED <<g_initialized, g_perf_stats, g_state_mutex>>
    /\ CallerVarsUnchanged

\* curve_apply_to_image: g_perf_stats.processing_time_ms = duration.count() / 1000.0
apply_stats ==
    /\ \E t \in Callers : Goes(t, "curve_apply_to_image:stats", "idle")
    /\ \E duration \in Durations : g_perf_stats' = duration
    /\ UNCHANGED <<g_initialized, g_state_mutex>>
    /\ CallerVarsUnchanged

\* curve_get_performance_stats: *stats = g_perf_stats
stats_copy ==
    /\ \E t \in Callers :
         Goes(t, "curve_get_performance_stats:copy", "curve_get_performance_stats:unlock")
    /\ UNCHANGED <<g_initialized, g_perf_stats, g_state_mutex>>
    /\ CallerVarsUnchanged

NextThreads ==
    \/ call_begins
    \/ lock_guard
    \/ lock_guard_released
    \/ initialize_test
    \/ initialize_stats
    \/ initialize_set
    \/ cleanup_test
    \/ cleanup_clear
    \/ create_test
    \/ apply_test
    \/ apply_stats
    \/ stats_copy

SpecThreads == InitThreads /\ [][NextThreads]_vars

----------------------------------------------------------------------------
(* Properties *)

Created == op = "curve_create" /\ ret = Returned(CURVE_SUCCESS)
CreatedCurve == heap[Deref(Deref(out_curve))]
GeneratedLUT == Deref(lut)

\* the arguments of the last curve_create pass its parameter test
CreateArgsValid ==
    args.points # NULL /\ args.point_count >= 2 /\ args.out_curve # NULL

Clamp01(v) == IF Lt(v, Zero) THEN Zero ELSE IF Lt(One, v) THEN One ELSE v

\* C1: for every curve of an enumerated type with a resolution of 2 or more,
\* a successful curve_generate_lut returns a table of lut_size samples, each
\* in [0,1].
C1_LutLengthAndRange ==
    (/\ op = "curve_generate_lut"
     /\ ret = Returned(CURVE_SUCCESS)
     /\ heap[Deref(args.curve)].type \in CurveTypes
     /\ heap[Deref(args.curve)].lut_size >= 2)
    => /\ Len(GeneratedLUT) = heap[Deref(args.curve)].lut_size
       /\ lut_size = Written(heap[Deref(args.curve)].lut_size)
       /\ \A k \in 1..Len(GeneratedLUT) : In01(GeneratedLUT[k])

\* C2: curve_create with a null points pointer, fewer than 2 points or a null
\* out_curve returns CURVE_ERROR_INVALID_PARAMS, writes nothing through
\* out_curve and allocates no curve; no live curve has fewer than 2 points.
C2_StateOk ==
    /\ (op = "curve_create" /\ ~CreateArgsValid)
          => (ret = Returned(CURVE_ERROR_INVALID_PARAMS) /\ out_curve = Unwritten)
    /\ \A id \in DOMAIN heap : heap[id].point_count >= 2 /\ Len(heap[id].points) >= 2

C2_FailedCreateAllocatesNothing ==
    (op' = "curve_create" /\ ~CreateArgsValid') => heap' = heap

C2_TooFewPointsRejected == [](C2_StateOk) /\ [][C2_FailedCreateAllocatesNothing]_vars

\* a curve_create with exactly one point, otherwise valid, on an initialized
\* engine, was rejected
C2_Witness ==
    /\ op = "curve_create" /\ g_initialized
    /\ args.points # NULL /\ args.point_count = 1 /\ args.out_curve # NULL
    /\ ret = Returned(CURVE_ERROR_INVALID_PARAMS)

C4_StateOk ==
    /\ Created =>
          \E pm \in Permutations(1..args.point_count) :
              \A i \in 1..args.point_count :
                  /\ CreatedCurve.points[i].x = Clamp01(Deref(args.points)[pm[i]].x)
                  /\ CreatedCurve.points[i].y = Clamp01(Deref(args.points)[pm[i]].y)
    /\ \A id \in DOMAIN heap :
          \A i \in 1..(Len(heap[id].points) - 1) :
              Le(heap[id].points[i].x, heap[id].points[i + 1].x)

C4_PointsNeverChange ==
    \A id \in DOMAIN heap \cap DOMAIN heap' : heap'[id].points = heap[id].points

C4_PointsStaySorted == [](C4_StateOk) /\ [][C4_PointsNeverChange]_vars

\* one curve was destroyed while another, created from input in descending
\* x, is still alive
C4_Witness ==
    /\ op = "curve_destroy" /\ args.curve = Ptr(2)
    /\ 1 \in DOMAIN heap
    /\ heap[1].points = <<Pt(0, 1, 1, 1), Pt(1, 1, 0, 1)>>

\* C5: the sort of curve_create is stable: stored points of equal x keep the
\* relative order they had in the input.
C5_SortIsStable ==
    Created =>
        \E pm \in Permutations(1..args.point_count) :
            /\ \A i \in 1..args.point_count :
                  CreatedCurve.points[i] = ClampPoint(Deref(args.points)[pm[i]])
            /\ \A i, j \in 1..args.point_count :
                  (i < j /\ CreatedCurve.points[i].x = CreatedCurve.points[j].x)
                      => pm[i] < pm[j]

\* the arguments of the last curve_apply_to_image pass its parameter test
ApplyArgsValid == args.curve # NULL /\ args.input # NULL /\ args.output # NULL

\* C6: curve_apply_to_image with a null curve, input or output returns
\* CURVE_ERROR_INVALID_PARAMS and writes no byte of the output buffer.
C6_ApplyRejectsMissing ==
    (op = "curve_apply_to_image" /\ ~ApplyArgsValid)
        => /\ ret = Returned(CURVE_ERROR_INVALID_PARAMS)
           /\ \A k \in 1..Len(output) : output[k] = Untouched

\* an apply with only the curve missing was rejected, before initialization
\* and with an output buffer that could have been written
C6_Witness ==
    /\ op = "curve_apply_to_image" /\ ~g_initialized
    /\ args.curve = NULL /\ args.input # NULL /\ args.output # NULL
    /\ Len(output) > 0
    /\ ret = Returned(CURVE_ERROR_INVALID_PARAMS)

\* C7: a failing curve_create writes nothing through out_curve, and a failing
\* curve_generate_lut writes neither *lut nor *lut_size.
C7_NoPartialWrite ==
    /\ (op = "curve_create" /\ ret # Returned(CURVE_SUCCESS)) => out_curve = Unwritten
    /\ (op = "curve_generate_lut" /\ ret # Returned(CURVE_SUCCESS))
          => (lut = Unwritten /\ lut_size = Unwritten)

\* C8: with a lut_size below 2, curve_generate_lut and (on an initialized
\* engine) curve_apply_to_image, called with non-null arguments, return
\* CURVE_ERROR_INVALID_PARAMS (curve_generate_lut may instead report an
\* allocation failure), so no table is returned and no pixel is written.
C8_SmallResolutionRejected ==
    /\ (/\ op = "curve_generate_lut"
        /\ args.curve # NULL /\ args.lut # NULL /\ args.lut_size # NULL
        /\ heap[Deref(args.curve)].lut_size < 2)
          => /\ ret \in {Returned(CURVE_ERROR_INVALID_PARAMS),
                         Returned(CURVE_ERROR_OUT_OF_MEMORY)}
             /\ lut = Unwritten
    /\ (/\ op = "curve_apply_to_image" /\ ApplyArgsValid /\ g_initialized
        /\ heap[Deref(args.curve)].lut_size < 2)
          => /\ ret = Returned(CURVE_ERROR_INVALID_PARAMS)
             /\ \A k \in 1..Len(output) : output[k] = Untouched

\* C9: curve_create with a type outside the five enumerators returns
\* CURVE_ERROR_INVALID_PARAMS, and no live curve has such a type.
C9_UnknownTypeRejected ==
    /\ (op = "curve_create" /\ args.type \notin CurveTypes)
          => ret = Returned(CURVE_ERROR_INVALID_PARAMS)
    /\ \A id \in DOMAIN heap : heap[id].type \in CurveTypes

\* C10 as stated: curve_create, curve_generate_lut and curve_apply_to_image
\* with valid arguments never return CURVE_ERROR_NOT_INITIALIZED.
C10_NeverNotInitialized ==
    /\ (op = "curve_create" /\ CreateArgsValid)
          => ret # Returned(CURVE_ERROR_NOT_INITIALIZED)
    /\ (op = "curve_apply_to_image" /\ ApplyArgsValid)
          => ret # Returned(CURVE_ERROR_NOT_INITIALIZED)
    /\ op = "curve_generate_lut" => ret # Returned(CURVE_ERROR_NOT_INITIALIZED)

\* C10 as amended: curve_create and curve_apply_to_image with valid arguments
\* return CURVE_ERROR_NOT_INITIALIZED exactly when the engine is not
\* initialized; curve_generate_lut never returns it.
C10_NotInitializedOnlyWithoutInit ==
    /\ (op = "curve_create" /\ CreateArgsValid)
          => (ret = Returned(CURVE_ERROR_NOT_INITIALIZED) <=> ~g_initialized)
    /\ (op = "curve_apply_to_image" /\ ApplyArgsValid)
          => (ret = Returned(CURVE_ERROR_NOT_INITIALIZED) <=> ~g_initialized)
    /\ op = "curve_generate_lut" => ret # Returned(CURVE_ERROR_NOT_INITIALIZED)

\* an apply with valid arguments was refused after a cleanup, and the curve
\* it names had been created while the engine was initialized
C10_Witness ==
    /\ op = "curve_apply_to_image" /\ ApplyArgsValid /\ ~g_initialized
    /\ ret = Returned(CURVE_ERROR_NOT_INITIALIZED)

\* every iteration of the row loop has run
RowsDone == op = "applyLUTToImage" /\ \A y \in DOMAIN omp : omp[y] # 0

\* sample c of pixel (x,y) of the input buffer and of the output buffer
InByte(x, y, c) ==
    args.input.data[y * args.input.stride + x * args.input.channels + c + 1]
OutByte(x, y, c) ==
    output[y * args.output.stride + x * args.input.channels + c + 1]

Columns == 0..(args.input.width - 1)
Rows == 0..(args.input.height - 1)
Samples == 0..(args.input.channels - 1)

\* lut[i] = i/(lutSize-1), lutSize >= 2
IsIdentityLUT(table) ==
    Len(table) >= 2 /\ \A i \in 1..Len(table) : table[i] = Frac(i - 1, Len(table) - 1)

\* C11: with an identity table and the all-channels policy (CHANNEL_RGB or
\* CHANNEL_LUMINANCE) the lookup maps every sample value 0..255 to itself, and
\* after the row loop every sample of every pixel of the output, alpha
\* included, equals the input sample.
C11_IdentityLeavesImage ==
    (/\ RowsDone
     /\ IsIdentityLUT(args.lut)
     /\ args.channel \in {CHANNEL_RGB, CHANNEL_LUMINANCE})
    => /\ \A v \in 0..255 : \A u \in UndefBytes : LutLookup(args.lut, v, u) = v
       /\ \A x \in Columns, y \in Rows, c \in Samples : OutByte(x, y, c) = InByte(x, y, c)

\* two rows of an RGBA image went through the identity table of three entries
C11_Witness ==
    /\ RowsDone /\ IsIdentityLUT(args.lut) /\ Len(args.lut) = 3
    /\ args.channel = CHANNEL_RGB
    /\ args.input.channels = 4 /\ args.input.height = 2
    /\ \A x \in Columns, y \in Rows, c \in Samples : OutByte(x, y, c) = InByte(x, y, c)

\* C12: for CHANNEL_RED, CHANNEL_GREEN or CHANNEL_BLUE on a 3- or 4-channel
\* image, after the row loop sample 0, 1 or 2 of every pixel is the lookup of
\* the input sample and every other sample, alpha included, is the input sample.
C12_SingleChannel ==
    (/\ RowsDone
     /\ args.channel \in {CHANNEL_RED, CHANNEL_GREEN, CHANNEL_BLUE}
     /\ args.input.channels \in {3, 4})
    => \A x \in Columns, y \in Rows, c \in Samples :
          IF c = args.channel - CHANNEL_RED
          THEN \A u \in UndefBytes : OutByte(x, y, c) = LutLookup(args.lut, InByte(x, y, c), u)
          ELSE OutByte(x, y, c) = InByte(x, y, c)

\* the green sample of an RGBA pixel was inverted, and changed by it
C12_Witness ==
    /\ RowsDone /\ args.channel = CHANNEL_GREEN /\ args.input.channels = 4
    /\ \E x \in Columns, y \in Rows :
          /\ OutByte(x, y, 1) = 255 - InByte(x, y, 1)
          /\ OutByte(x, y, 1) # InByte(x, y, 1)
          /\ OutByte(x, y, 0) = InByte(x, y, 0)

\* C13: for CHANNEL_LAB_L, CHANNEL_LAB_A or CHANNEL_LAB_B, after the row loop
\* every sample of every output pixel equals the input sample.
C13_LabPassThrough ==
    (RowsDone /\ args.channel \in {CHANNEL_LAB_L, CHANNEL_LAB_A, CHANNEL_LAB_B})
    => \A x \in Columns, y \in Rows, c \in Samples : OutByte(x, y, c) = InByte(x, y, c)

\* C14: on a 4-channel image, for each of the eight channel targets, after
\* the row loop the alpha sample of every output pixel is the input's.
C14_AlphaCopied ==
    (RowsDone /\ args.input.channels = 4)
    => \A x \in Columns, y \in Rows : OutByte(x, y, 3) = InByte(x, y, 3)

\* two rows of an RGBA image under a Lab target, whose only store is the alpha copy
C14_Witness ==
    /\ RowsDone /\ args.input.channels = 4 /\ args.input.height = 2
    /\ args.channel = CHANNEL_LAB_B
    /\ \A x \in Columns, y \in Rows : OutByte(x, y, 3) = InByte(x, y, 3)

\* C16: every iteration of the row loop runs once, by a worker of the team,
\* and whatever the thread count and the order of the iterations, the buffer
\* after the loop is the one the serial loop gives: each stored byte of pixel
\* (x,y) is computed from the input sample of pixel (x,y) and the table alone.
C16_RowOrderIrrelevant ==
    op = "applyLUTToImage" =>
       /\ \A y \in DOMAIN omp :
             omp[y] \in 0..ThreadCount(args.options, args.hardware_concurrency)
       /\ RowsDone =>
             /\ \A u \in UndefBytes :
                   output = applyLUTCPU(args.lut, args.input, args.output.data,
                                        args.output.stride, args.channel, u)
             /\ \A x \in Columns, y \in Rows, c \in Samples :
                   WritesChannel(args.channel, args.input.channels, c) =>
                      /\ \A u \in UndefBytes :
                            OutByte(x, y, c) = PixelByte(args.lut, args.channel,
                                                         args.input.channels, c,
                                                         InByte(x, y, c), u)
                      /\ writers[y * args.output.stride + x * args.input.channels + c] = {y}

\* with thread_count 0 and two hardware threads, the second row ran on worker
\* 1 and the first on worker 2
C16_Witness ==
    /\ RowsDone /\ args.input.height = 2
    /\ args.options.thread_count = 0 /\ args.hardware_concurrency = 2
    /\ omp[0] = 2 /\ omp[1] = 1
    /\ args.channel = CHANNEL_RGB /\ ~IsIdentityLUT(args.lut)

\* C17: with output.stride >= width * channels no byte of the output is
\* stored by the iterations of two different rows, and the iterations leave
\* the table and the input buffer as they were.
C17_DisjointRows ==
    (op = "applyLUTToImage" /\ args.output.stride >= args.input.width * args.input.channels)
    => \A k \in DOMAIN writers : Cardinality(writers[k]) <= 1

C17_OnlyReads == op = "applyLUTToImage" => (args.lut' = args.lut /\ args.input' = args.input)

C17_NoSharedWrites == [](C17_DisjointRows) /\ [][C17_OnlyReads]_vars

\* two workers each stored a row of an output without padding, where the rows
\* are adjacent in memory
C17_Witness ==
    /\ RowsDone /\ args.input.height = 2 /\ omp[0] # omp[1]
    /\ args.output.stride = args.input.width * args.input.channels
    /\ \E k \in DOMAIN writers : writers[k] = {0}
    /\ \E k \in DOMAIN writers : writers[k] = {1}

\* the offsets (from 0) y*stride + k, 0 <= y < height, 0 <= k < width*channels
PixelBytes ==
    {k \in 0..(Len(output) - 1) :
        /\ k \div args.output.stride < args.input.height
        /\ k % args.output.stride < args.input.width * args.input.channels}

\* C18: the row loop stores only to offsets y*stride + k with 0 <= y < height
\* and 0 <= k < width*channels, so the padding of every output row stays as
\* the caller left it, and no step changes the input buffer, the table or the
\* curve (points, type, channel, lut_size).
C18_PaddingUntouched ==
    op = "applyLUTToImage" =>
        \A k \in 0..(Len(output) - 1) :
            k \notin PixelBytes => (output[k + 1] = args.output.data[k + 1] /\ writers[k] = {})

C18_InputsUnchanged == op = "applyLUTToImage" => (args' = args /\ heap' = heap)

C18_WritesOnlyPixels == [](C18_PaddingUntouched) /\ [][C18_InputsUnchanged]_vars

\* both rows of a padded RGBA output were stored, and its padding bytes are
\* as the caller left them
C18_Witness ==
    /\ RowsDone /\ args.input.height = 2 /\ args.input.channels = 4
    /\ args.output.stride > args.input.width * args.input.channels
    /\ args.channel = CHANNEL_RED
    /\ \A k \in PixelBytes : output[k + 1] # Untouched
    /\ \E k \in 0..(Len(output) - 1) : k \notin PixelBytes /\ output[k + 1] = Untouched

\* every curve of the array has been applied
MultiDone == op = "curve_apply_multi_channel" /\ applied = args.curve_count

LastCurve == heap[Deref(args.curves[args.curve_count])]
CurveBeforeLast == heap[Deref(args.curves[args.curve_count - 1])]

LutReturned == op = "generateOptimizedLUT" /\ ret # NoReturn
ReturnedLUT == Deref(ret)

\* C19: the table returned for CURVE_TYPE_AI_OPTIMIZED equals, sample by
\* sample, the table for CURVE_TYPE_CUBIC_SPLINE with the same points and size.
C19_AIEqualsSpline ==
    (LutReturned /\ args.type = CURVE_TYPE_AI_OPTIMIZED)
    => /\ Len(ReturnedLUT) = args.size
       /\ \A i \in 1..args.size :
             ReturnedLUT[i] =
                 generateOptimizedLUT(args.points, CURVE_TYPE_CUBIC_SPLINE, args.size)[i]

\* an AI-optimized table of three points with distinct x, all of its samples
\* numbers, that is not the piecewise-linear table of those points
C19_Witness ==
    /\ LutReturned /\ args.type = CURVE_TYPE_AI_OPTIMIZED
    /\ Len(args.points) = 3
    /\ Lt(args.points[1].x, args.points[2].x) /\ Lt(args.points[2].x, args.points[3].x)
    /\ \A i \in 1..args.size : IsFinite(ReturnedLUT[i])
    /\ ReturnedLUT # generateOptimizedLUT(args.points, CURVE_TYPE_LINEAR, args.size)

\* the first segment, in array order, with points[j].x <= x <= points[j+1].x
BracketingSegment(points, x) ==
    CHOOSE j \in 1..(Len(points) - 1) :
        /\ Le(points[j].x, x) /\ Le(x, points[j + 1].x)
        /\ \A o \in 1..(j - 1) : ~(Le(points[o].x, x) /\ Le(x, points[o + 1].x))

\* the piecewise-linear curve through the points at x
PiecewiseLinear(points, x) ==
    IF Le(x, points[1].x) THEN points[1].y
    ELSE IF Le(points[Len(points)].x, x) THEN points[Len(points)].y
    ELSE LET j == BracketingSegment(points, x)
         IN  Add(points[j].y,
                 Div(Mul(Sub(x, points[j].x), Sub(points[j + 1].y, points[j].y)),
                     Sub(points[j + 1].x, points[j].x)))

\* C20: sample i of the table of a linear curve is the piecewise-linear
\* interpolation of the points at x = i/(size-1): the first y at or below the
\* first x, the last y at or above the last x, the interpolation in the
\* bracketing segment between; (0,0),(1,1) at size 5 gives 0, 1/4, 1/2, 3/4, 1.
C20_LinearTable ==
    (LutReturned /\ args.type = CURVE_TYPE_LINEAR)
    => /\ Len(ReturnedLUT) = args.size
       /\ \A i \in 0..(args.size - 1) :
             ReturnedLUT[i + 1] = PiecewiseLinear(args.points, Frac(i, args.size - 1))
       /\ (args.points = IdentityPoints /\ args.size = 5) =>
             ReturnedLUT = <<Frac(0, 1), Frac(1, 4), Frac(1, 2), Frac(3, 4), Frac(1, 1)>>

\* the linear table of (0,0),(1,1) at size 5 was returned
C20_Witness ==
    /\ LutReturned /\ args.type = CURVE_TYPE_LINEAR
    /\ args.points = IdentityPoints /\ args.size = 5
    /\ ReturnedLUT[2] = Frac(1, 4) /\ ReturnedLUT[4] = Frac(3, 4)

\* the call was made with this curve type
LutOfType(type) == LutReturned /\ args.type = type

\* v lies between a and b, whichever of the two is the larger
Between(v, a, b) == (Le(a, v) /\ Le(v, b)) \/ (Le(b, v) /\ Le(v, a))

C23_ParametricIdentity ==
    (/\ LutOfType(CURVE_TYPE_PARAMETRIC)
     /\ Len(args.points) >= 3
     /\ PY(args.points, 0) = Zero
     /\ PY(args.points, Len(args.points) - 1) = One
     /\ PY(args.points, 1) = PX(args.points, 1))
    => /\ ParametricGamma(args.points) = One
       /\ IsIdentityLUT(ReturnedLUT)

\* floor of a finite value
Floor(a) == a[1] \div a[2]

\* the reference lookup of sample v in a table of finite entries: position =
\* (v/255)*(lutSize-1), index = floor(position), the table interpolated at
\* position (its last entry when index >= lutSize-1), then
\* floor(value*255 + 0.5) clamped to [0,255]
ReferenceLookup(table, v) ==
    LET position == Mul(Frac(v, 255), Int2D(Len(table) - 1))
        index == Floor(position)
        value == IF index >= Len(table) - 1 THEN table[Len(table)]
                 ELSE Add(table[index + 1],
                          Mul(Sub(position, Int2D(index)),
                              Sub(table[index + 2], table[index + 1])))
        byte == Floor(Add(Mul(value, Int2D(255)), Frac(1, 2)))
    IN  IF byte < 0 THEN 0 ELSE IF byte > 255 THEN 255 ELSE byte

\* CHANNEL_LUMINANCE for CHANNEL_RGB and the reverse
OtherAllChannelsTarget(channel) ==
    IF channel = CHANNEL_RGB THEN CHANNEL_LUMINANCE ELSE CHANNEL_RGB

\* C24: for CHANNEL_RGB and CHANNEL_LUMINANCE alike, after the row loop each
\* of the first min(3, channels) samples of every output pixel is the
\* reference lookup of the input sample, and the buffer is the one the other
\* of the two targets gives.
C24_AllChannelsLookup ==
    (RowsDone /\ args.channel \in {CHANNEL_RGB, CHANNEL_LUMINANCE})
    => /\ \A x \in Columns, y \in Rows, c \in 0..(Min(3, args.input.channels) - 1) :
             OutByte(x, y, c) = ReferenceLookup(args.lut, InByte(x, y, c))
       /\ \A u \in UndefBytes :
             output = applyLUTCPU(args.lut, args.input, args.output.data, args.output.stride,
                                  OtherAllChannelsTarget(args.channel), u)

\* the Luminance target inverted the three samples of an RGB pixel through a
\* table of three entries
C24_Witness ==
    /\ RowsDone /\ args.channel = CHANNEL_LUMINANCE
    /\ args.input.channels = 3 /\ Len(args.lut) = 3 /\ ~IsIdentityLUT(args.lut)
    /\ \A c \in 0..2 : OutByte(1, 0, c) = 255 - InByte(1, 0, c)
    /\ OutByte(1, 0, 0) # InByte(1, 0, 0)

\* the x the table is sampled at that are below the first breakpoint, and
\* those above the last
SamplesBelow == {k \in 1..args.size : Lt(SampleX(k - 1, args.size), PX(args.points, 0))}
SamplesAbove ==
    {k \in 1..args.size : Lt(PX(args.points, Len(args.points) - 1), SampleX(k - 1, args.size))}

DistinctX(points) == \A i, j \in 1..Len(points) : i # j => points[i].x # points[j].x

\* C25 as stated: below the first and above the last breakpoint the value is
\* that of the boundary segment's cubic extended to x, not the end point's y.
C25_ExtrapolatesCubic ==
    LutOfType(CURVE_TYPE_CUBIC_SPLINE)
    => LET segments == calculateSplineSegments(args.points)
           first == segments[1]
           last == segments[Len(segments)]
       IN  /\ \A k \in SamplesBelow :
                 evaluate(segments, SampleX(k - 1, args.size))
                    = SegmentPoly(first, Sub(SampleX(k - 1, args.size), first.x_start))
           /\ \A k \in SamplesAbove :
                 evaluate(segments, SampleX(k - 1, args.size))
                    = SegmentPoly(last, Sub(SampleX(k - 1, args.size), last.x_start))

\* C25, amended: below the first breakpoint the value is the first point's y;
\* above the last it is the last segment's polynomial at dx = x_end - x_start,
\* whatever x is, which for points with distinct x is the last point's y.
C25_ClampsToEnds ==
    LutOfType(CURVE_TYPE_CUBIC_SPLINE)
    => LET segments == calculateSplineSegments(args.points)
           last == segments[Len(segments)]
           n == Len(args.points)
       IN  /\ \A k \in SamplesBelow :
                 /\ evaluate(segments, SampleX(k - 1, args.size)) = PY(args.points, 0)
                 /\ ReturnedLUT[k] = PY(args.points, 0)
           /\ \A k \in SamplesAbove :
                 /\ evaluate(segments, SampleX(k - 1, args.size))
                       = SegmentPoly(last, Sub(last.x_end, last.x_start))
                 /\ DistinctX(args.points) =>
                       /\ evaluate(segments, SampleX(k - 1, args.size)) = PY(args.points, n - 1)
                       /\ ReturnedLUT[k] = PY(args.points, n - 1)

\* two points with distinct x whose first breakpoint is above 0: the sample
\* at x = 0 is the first point's y, where the cubic extended would differ
C25_Witness ==
    /\ LutOfType(CURVE_TYPE_CUBIC_SPLINE)
    /\ Len(args.points) = 2 /\ args.size = 3
    /\ args.points = <<Pt(1, 2, 1, 2), Pt(1, 1, 1, 1)>>
    /\ SamplesBelow = {1}
    /\ ReturnedLUT = <<Frac(1, 2), Frac(1, 2), One>>
    /\ SegmentPoly(calculateSplineSegments(args.points)[1], Frac(-1, 2)) = Zero

\* C26: for every stored point array (clamped, sorted by x, equal x and
\* x = 0 allowed), every curve type and every size >= 2, no value the table
\* generation divides by is zero.
C26_NoDivisionByZero ==
    LutReturned => Zero \notin Divisors(args.points, args.type, args.size)

\* C27: in any sequence of calls the flag is set by curve_initialize, cleared
\* by curve_cleanup and left alone by every other call; curve_create and
\* curve_apply_to_image with valid arguments return
\* CURVE_ERROR_NOT_INITIALIZED exactly when it is clear, with invalid
\* arguments they return CURVE_ERROR_INVALID_PARAMS whether it is set or
\* clear, and curve_generate_lut never returns CURVE_ERROR_NOT_INITIALIZED.
C27_StateOk ==
    /\ op = "curve_create" =>
          IF CreateArgsValid
          THEN ret = Returned(CURVE_ERROR_NOT_INITIALIZED) <=> ~g_initialized
          ELSE ret = Returned(CURVE_ERROR_INVALID_PARAMS)
    /\ op = "curve_apply_to_image" =>
          IF ApplyArgsValid
          THEN ret = Returned(CURVE_ERROR_NOT_INITIALIZED) <=> ~g_initialized
          ELSE ret = Returned(CURVE_ERROR_INVALID_PARAMS)
    /\ op = "curve_generate_lut" => ret # Returned(CURVE_ERROR_NOT_INITIALIZED)

C27_FlagFollowsCalls ==
    /\ op' = "curve_initialize" => g_initialized'
    /\ op' = "curve_cleanup" => ~g_initialized'
    /\ op' \notin {"curve_initialize", "curve_cleanup"} => g_initialized' = g_initialized

C27_InitStateDecides == [](C27_StateOk) /\ [][C27_FlagFollowsCalls]_vars

\* a create with valid arguments was refused while a curve created before
\* the cleanup is still live
C27_Witness ==
    /\ op = "curve_create" /\ CreateArgsValid /\ ~g_initialized
    /\ ret = Returned(CURVE_ERROR_NOT_INITIALIZED)
    /\ LiveIds # {}

\* C28: curve_initialize while initialized returns CURVE_SUCCESS and leaves
\* the flag, the statistics and the curves as they are; curve_cleanup while
\* not initialized changes nothing; curve_cleanup while initialized clears
\* the flag and curve_initialize while not initialized sets it and resets the
\* statistics, so after initialize; cleanup; initialize the engine is
\* initialized again with the statistics reset.
C28_Step ==
    /\ (op' = "curve_initialize" /\ g_initialized) =>
          /\ ret' = Returned(CURVE_SUCCESS)
          /\ UNCHANGED <<g_initialized, g_perf_stats, heap>>
    /\ (op' = "curve_initialize" /\ ~g_initialized) =>
          /\ ret' = Returned(CURVE_SUCCESS)
          /\ g_initialized' /\ g_perf_stats' = 0
    /\ (op' = "curve_cleanup" /\ ~g_initialized) =>
          UNCHANGED <<g_initialized, g_perf_stats, heap>>
    /\ (op' = "curve_cleanup" /\ g_initialized) => ~g_initialized'

C28_InitializeCleanupIdempotent == [][C28_Step]_vars

\* a curve_initialize returned while the statistics of an earlier apply are
\* still there: the engine was initialized already
C28_Witness ==
    /\ op = "curve_initialize" /\ ret = Returned(CURVE_SUCCESS)
    /\ g_initialized /\ g_perf_stats # 0

\* C29: whenever a thread is about to read or write g_initialized or
\* g_perf_stats, in curve_initialize, curve_cleanup, curve_create,
\* curve_apply_to_image or curve_get_performance_stats, it holds g_state_mutex.
C29_AccessesHoldMutex ==
    op = "concurrent calls" =>
        \A t \in Callers : pc[t] \in SharedAccesses => g_state_mutex = t

\* C30: for every curve type, every stored point array and every size >= 2,
\* the first sample of the table is the first point's y and the last sample
\* is the last point's y.
C30_EndPointsAnchored ==
    LutReturned =>
        /\ ReturnedLUT[1] = PY(args.points, 0)
        /\ ReturnedLUT[args.size] = PY(args.points, Len(args.points) - 1)

====
